---- MODULE Spec2Model ----
(***************************************************************************)
(* Model of domUtils/traversal.ts: the read-only accessors over a parsed   *)
(* document tree (getChildren, getParent, getSiblings, getAttributeValue,  *)
(* hasAttrib, getName, nextElementSibling, prevElementSibling).            *)
(*                                                                         *)
(* The tree is the state the accessors read: every node's type, name,      *)
(* parent, prev, next, children and attribs.  Arrays are heap objects with *)
(* identity (a node's children field holds a reference), so that an        *)
(* accessor writing to an array it does not own is visible.  A call is a   *)
(* frame; the loops of getSiblings, nextElementSibling and                 *)
(* prevElementSibling advance one iteration per step.                      *)
(***************************************************************************)
EXTENDS Integers, Sequences, FiniteSets, TLC

VARIABLES type, name, parent, prev, next, children, attribs, heap, frame

vars == <<type, name, parent, prev, next, children, attribs, heap, frame>>

(* ---------------------------------------------------------------------- *)
(* Bounds and values                                                       *)
(* ---------------------------------------------------------------------- *)

\* Number of nodes of the document.
MaxNodes == 3

Nodes == 1..MaxNodes

\* JavaScript null and undefined, as values of a node-valued field.
Null == 0

Undefined == 0 - 1

\* Node types of the node model.  Elements are tag, script and style;
\* containers are the elements, the document root and CDATA sections.
ElementTypes == {"tag", "script", "style"}

ContainerTypes == ElementTypes \cup {"root", "cdata"}

\* The node types the documents of Init are drawn from: an element, a
\* container that is not an element, and a leaf.
InitTypes == {"tag", "cdata", "text"}

\* Attribute names looked up.  "constructor" is also a property every plain
\* object inherits from Object.prototype.
AttrNames == {"id", "constructor"}

\* Values of an own key of an attribute mapping: a string, or a key that is
\* stored with null or undefined; Missing marks a name that is not an own key.
StrUndefined == "<undefined>"

StrNull == "<null>"

Missing == "<missing>"

AttrStrings == {"x", ""}

OwnValues == AttrStrings \cup {StrNull, StrUndefined, Missing}

\* What a plain object inherits: Object.prototype.constructor is a function.
ObjectPrototype == [n \in {"constructor"} |-> "<function Object>"]

\* The attribute mappings: plain objects, each given by its own keys.
AttribObjects == [AttrNames -> OwnValues]

\* The mapping `{ id: "x" }`.
DefaultAttribs == [n \in AttrNames |-> IF n = "id" THEN "x" ELSE Missing]

\* No attribs property on the node.
NoAttribs == [n \in AttrNames |-> "<no mapping>"]

(* ---------------------------------------------------------------------- *)
(* Documents: the consistent trees the accessors are called on             *)
(* ---------------------------------------------------------------------- *)

SetMax(S) == CHOOSE x \in S : \A y \in S : y <= x

SetMin(S) == CHOOSE x \in S : \A y \in S : x <= y

RECURSIVE SortedSeq(_)
SortedSeq(S) ==
    IF S = {} THEN <<>>
    ELSE LET m == SetMin(S) IN <<m>> \o SortedSeq(S \ {m})

\* The nodes that share n's parent; document order is the order of ids.
Group(par, n) == {m \in Nodes : par[m] = par[n]}

\* brk: the parent-less nodes at which a new detached chain starts.
LinkPrev(par, brk, n) ==
    LET P == {m \in Group(par, n) : m < n} IN
    IF P = {} \/ (par[n] = Null /\ n \in brk) THEN Null ELSE SetMax(P)

LinkNext(par, brk, n) ==
    LET Q == {m \in Group(par, n) : m > n} IN
    IF Q = {} THEN Null
    ELSE IF par[n] = Null /\ SetMin(Q) \in brk THEN Null ELSE SetMin(Q)

TagName(t) ==
    IF t = "tag" THEN "div" ELSE IF t \in ElementTypes THEN t ELSE StrUndefined

\* A parent map is a forest: a parent is a container with a smaller id.
ParentMaps(ty) ==
    {par \in [Nodes -> {Null} \cup Nodes] :
        \A n \in Nodes : par[n] # Null => par[n] < n /\ ty[par[n]] \in ContainerTypes}

Breaks(par) ==
    LET top == {n \in Nodes : par[n] = Null} IN SUBSET (top \ {SetMin(top)})

TreeOf(ty, par, brk, att) ==
    /\ type = ty
    /\ name = [n \in Nodes |-> TagName(ty[n])]
    /\ parent = par
    /\ prev = [n \in Nodes |-> LinkPrev(par, brk, n)]
    /\ next = [n \in Nodes |-> LinkNext(par, brk, n)]
    /\ children = [n \in Nodes |-> IF ty[n] \in ContainerTypes THEN n ELSE Undefined]
    /\ heap = [n \in {m \in Nodes : ty[m] \in ContainerTypes} |->
                  SortedSeq({m \in Nodes : par[m] = n})]
    /\ attribs = att

(* ---------------------------------------------------------------------- *)
(* Frames                                                                  *)
(* ---------------------------------------------------------------------- *)

MkFrame(fn, pc, elem, attr, siblings, p, n, ret, visited) ==
    [fn |-> fn, pc |-> pc, elem |-> elem, attr |-> attr, siblings |-> siblings,
     prev |-> p, next |-> n, ret |-> ret, visited |-> visited]

Idle == MkFrame("none", "idle", Null, "", Null, Null, Null, Null, <<>>)

\* A call that returned ret without entering a loop.
Returned(fn, elem, attr, ret) ==
    MkFrame(fn, "done", elem, attr, Null, Null, Null, ret, <<elem>>)

\* `[...]`: a new array, at a reference no live array has.
NewArray(h, s) ==
    LET r == MaxNodes + 1 IN [ret |-> r, h |-> (r :> s) @@ h]

(* ---------------------------------------------------------------------- *)
(* The accessors                                                           *)
(* ---------------------------------------------------------------------- *)

isTag(n) == type[n] \in ElementTypes

hasChildren(n) == children[n] # Undefined

\* Faulty variant of getChildren: `elem.children`, without the hasChildren test.
getChildren_unguarded(elem, h) == [ret |-> children[elem], h |-> h]

\* getChildren: `hasChildren(elem) ? elem.children : []`
getChildren(elem, h) ==
    IF hasChildren(elem) THEN [ret |-> children[elem], h |-> h]
    ELSE NewArray(h, <<>>)

\* Faulty variant of getParent: `elem.parent && null`.
getParent_and(elem) ==
    IF parent[elem] \in {Null, Undefined} THEN parent[elem] ELSE Null

\* getParent: `elem.parent || null`
getParent(elem) ==
    IF parent[elem] \in {Null, Undefined} THEN Null ELSE parent[elem]

\* `obj[key]`: the own key, else the inherited property, else undefined.
Get(obj, key) ==
    IF obj[key] # Missing THEN obj[key]
    ELSE IF key \in DOMAIN ObjectPrototype THEN ObjectPrototype[key]
    ELSE StrUndefined

hasOwnProperty(obj, key) == obj[key] # Missing

\* getAttributeValue: `elem.attribs?.[name]`
getAttributeValue(elem, key) ==
    IF attribs[elem] = NoAttribs THEN StrUndefined ELSE Get(attribs[elem], key)

\* Faulty variant of hasAttrib: the `attribs[name] != null` test left out.
hasAttrib_keyOnly(elem, key) ==
    /\ attribs[elem] # NoAttribs
    /\ hasOwnProperty(attribs[elem], key)

\* hasAttrib: `attribs != null && hasOwnProperty(attribs, name) && attribs[name] != null`
hasAttrib(elem, key) ==
    /\ attribs[elem] # NoAttribs
    /\ hasOwnProperty(attribs[elem], key)
    /\ Get(attribs[elem], key) \notin {StrNull, StrUndefined}

\* getName: `elem.name`
getName(elem) == name[elem]

(* ---------------------------------------------------------------------- *)
(* The accessors with a loop: entry block and one loop iteration per step  *)
(* ---------------------------------------------------------------------- *)

\* Faulty variant of getSiblings: the children of elem instead of its parent's.
EnterGetSiblings_ownChildren(elem, h) ==
    LET p == getParent(elem) IN
    IF p # Null
    THEN LET c == getChildren(elem, h) IN
         [f |-> Returned("getSiblings", elem, "", c.ret), h |-> c.h]
    ELSE LET a == NewArray(h, <<elem>>) IN
         [f |-> MkFrame("getSiblings", "L50", elem, "", a.ret,
                        prev[elem], next[elem], Null, <<elem>>),
          h |-> a.h]

\* Faulty variant of getSiblings: the fallback collects into elem's own children
\* array, `getChildren(elem)`, instead of a new array.
EnterGetSiblings_alias(elem, h) ==
    LET p == getParent(elem) IN
    IF p # Null
    THEN LET c == getChildren(p, h) IN
         [f |-> Returned("getSiblings", elem, "", c.ret), h |-> c.h]
    ELSE LET c == getChildren(elem, h) IN
         [f |-> MkFrame("getSiblings", "L50", elem, "", c.ret,
                        prev[elem], next[elem], Null, <<elem>>),
          h |-> [c.h EXCEPT ![c.ret] = <<elem>>]]

\* getSiblings, up to its first loop: the parent's children array itself, or
\* a new array `[elem]` and the two cursors.
EnterGetSiblings(elem, h) ==
    LET p == getParent(elem) IN
    IF p # Null
    THEN LET c == getChildren(p, h) IN
         [f |-> Returned("getSiblings", elem, "", c.ret), h |-> c.h]
    ELSE LET a == NewArray(h, <<elem>>) IN
         [f |-> MkFrame("getSiblings", "L50", elem, "", a.ret,
                        prev[elem], next[elem], Null, <<elem>>),
          h |-> a.h]

\* Faulty variant of the prev walk: `siblings.push(prev)` instead of unshift.
PrevWalk_push(st) ==
    LET f == st.f IN
    IF f.prev \notin {Null, Undefined}
    THEN [f |-> [f EXCEPT !.prev = prev[f.prev], !.visited = Append(@, f.prev)],
          h |-> [st.h EXCEPT ![f.siblings] = Append(@, f.prev)]]
    ELSE [f |-> [f EXCEPT !.pc = "L54"], h |-> st.h]

\* `while (prev != null) { siblings.unshift(prev); ({ prev } = prev); }`
PrevWalk(st) ==
    LET f == st.f IN
    IF f.prev \notin {Null, Undefined}
    THEN [f |-> [f EXCEPT !.prev = prev[f.prev], !.visited = Append(@, f.prev)],
          h |-> [st.h EXCEPT ![f.siblings] = <<f.prev>> \o @]]
    ELSE [f |-> [f EXCEPT !.pc = "L54"], h |-> st.h]

\* `while (next != null) { siblings.push(next); ({ next } = next); }`
\* and `return siblings`.
NextWalk(st) ==
    LET f == st.f IN
    IF f.next \notin {Null, Undefined}
    THEN [f |-> [f EXCEPT !.next = next[f.next], !.visited = Append(@, f.next)],
          h |-> [st.h EXCEPT ![f.siblings] = Append(@, f.next)]]
    ELSE [f |-> [f EXCEPT !.pc = "done", !.ret = f.siblings], h |-> st.h]

\* `let { next } = elem;`
EnterNextElementSibling(elem, h) ==
    [f |-> MkFrame("nextElementSibling", "L113", elem, "", Null,
                   Null, next[elem], Null, <<elem>>),
     h |-> h]

\* Faulty variant of nextElementSibling: `return elem.next`, no skipping.
NextElemStep_noSkip(st) ==
    [f |-> [st.f EXCEPT !.pc = "done", !.ret = st.f.next], h |-> st.h]

\* Faulty variant of nextElementSibling: `while (!isTag(next))`, the null test left
\* out, so that isTag reads the type of null at the end of the chain.
NextElemStep_noNullTest(st) ==
    LET f == st.f IN
    IF f.next \in {Null, Undefined}
    THEN [f |-> [f EXCEPT !.pc = "error"], h |-> st.h]
    ELSE IF isTag(f.next)
    THEN [f |-> [f EXCEPT !.pc = "done", !.ret = f.next,
                          !.visited = Append(@, f.next)],
          h |-> st.h]
    ELSE [f |-> [f EXCEPT !.next = next[f.next], !.visited = Append(@, f.next)],
          h |-> st.h]

\* `while (next !== null && !isTag(next)) ({ next } = next);` and
\* `return next`.  isTag reads next.type, which throws on undefined.
NextElemStep(st) ==
    LET f == st.f IN
    IF f.next = Null
    THEN [f |-> [f EXCEPT !.pc = "done", !.ret = Null], h |-> st.h]
    ELSE IF f.next = Undefined
    THEN [f |-> [f EXCEPT !.pc = "error"], h |-> st.h]
    ELSE IF isTag(f.next)
    THEN [f |-> [f EXCEPT !.pc = "done", !.ret = f.next,
                          !.visited = Append(@, f.next)],
          h |-> st.h]
    ELSE [f |-> [f EXCEPT !.next = next[f.next], !.visited = Append(@, f.next)],
          h |-> st.h]

\* `let { prev } = elem;`
EnterPrevElementSibling(elem, h) ==
    [f |-> MkFrame("prevElementSibling", "L127", elem, "", Null,
                   prev[elem], Null, Null, <<elem>>),
     h |-> h]

\* Faulty variant of prevElementSibling: `return elem.prev`, no skipping.
PrevElemStep_noSkip(st) ==
    [f |-> [st.f EXCEPT !.pc = "done", !.ret = st.f.prev], h |-> st.h]

\* `while (prev !== null && !isTag(prev)) ({ prev } = prev);` and
\* `return prev`.
PrevElemStep(st) ==
    LET f == st.f IN
    IF f.prev = Null
    THEN [f |-> [f EXCEPT !.pc = "done", !.ret = Null], h |-> st.h]
    ELSE IF f.prev = Undefined
    THEN [f |-> [f EXCEPT !.pc = "error"], h |-> st.h]
    ELSE IF isTag(f.prev)
    THEN [f |-> [f EXCEPT !.pc = "done", !.ret = f.prev,
                          !.visited = Append(@, f.prev)],
          h |-> st.h]
    ELSE [f |-> [f EXCEPT !.prev = prev[f.prev], !.visited = Append(@, f.prev)],
          h |-> st.h]

\* One step of the call in progress.
Exec(st) ==
    CASE st.f.pc = "L50" -> PrevWalk(st)
      [] st.f.pc = "L54" -> NextWalk(st)
      [] st.f.pc = "L113" -> NextElemStep(st)
      [] st.f.pc = "L127" -> PrevElemStep(st)
      [] OTHER -> st

\* A call run to its return.
RECURSIVE Run(_)
Run(st) == IF st.f.pc \in {"done", "error"} THEN st ELSE Run(Exec(st))

\* The arrays the tree owns; an array a finished call returned is dropped.
TreeRefs == {children[n] : n \in Nodes} \ {Undefined}

TreeHeap == [r \in TreeRefs |-> heap[r]]

\* The values the three accessors return on the current tree.
getSiblings(elem) ==
    LET st == Run(EnterGetSiblings(elem, TreeHeap)) IN st.h[st.f.ret]

nextElementSibling(elem) == Run(EnterNextElementSibling(elem, TreeHeap)).f.ret

prevElementSibling(elem) == Run(EnterPrevElementSibling(elem, TreeHeap)).f.ret

(* ---------------------------------------------------------------------- *)
(* Initial states                                                          *)
(* ---------------------------------------------------------------------- *)

\* Every consistent document of MaxNodes nodes; each element carries
\* `{ id: "x" }`, the other nodes have no attribs.
InitTree ==
    /\ \E ty \in [Nodes -> InitTypes] :
         \E par \in ParentMaps(ty) :
           \E brk \in Breaks(par) :
             TreeOf(ty, par, brk,
                    [n \in Nodes |-> IF ty[n] \in ElementTypes
                                     THEN DefaultAttribs ELSE NoAttribs])
    /\ frame = Idle

\* One element with its children, its attribute mapping any plain object
\* or none.
InitAttr ==
    /\ \E a \in AttribObjects \cup {NoAttribs} :
         TreeOf([n \in Nodes |-> "tag"],
                [n \in Nodes |-> IF n = 1 THEN Null ELSE 1],
                {},
                [n \in Nodes |-> IF n = 1 THEN a ELSE DefaultAttribs])
    /\ frame = Idle

Init == InitTree \/ InitAttr

(* ---------------------------------------------------------------------- *)
(* Actions                                                                 *)
(* ---------------------------------------------------------------------- *)

tree == <<type, name, parent, prev, next, children, attribs>>

Elements == {n \in Nodes : isTag(n)}

CallGetChildren ==
    /\ frame.pc = "idle"
    /\ \E n \in Nodes :
         LET c == getChildren(n, heap) IN
         /\ frame' = Returned("getChildren", n, "", c.ret)
         /\ heap' = c.h
    /\ UNCHANGED tree

CallGetParent ==
    /\ frame.pc = "idle"
    /\ \E n \in Nodes : frame' = Returned("getParent", n, "", getParent(n))
    /\ UNCHANGED <<tree, heap>>

CallGetAttributeValue ==
    /\ frame.pc = "idle"
    /\ \E n \in Elements, k \in AttrNames :
         frame' = Returned("getAttributeValue", n, k, getAttributeValue(n, k))
    /\ UNCHANGED <<tree, heap>>

CallHasAttrib ==
    /\ frame.pc = "idle"
    /\ \E n \in Elements, k \in AttrNames :
         frame' = Returned("hasAttrib", n, k, hasAttrib(n, k))
    /\ UNCHANGED <<tree, heap>>

CallGetName ==
    /\ frame.pc = "idle"
    /\ \E n \in Elements : frame' = Returned("getName", n, "", getName(n))
    /\ UNCHANGED <<tree, heap>>

CallGetSiblings ==
    /\ frame.pc = "idle"
    /\ \E n \in Nodes :
         LET st == EnterGetSiblings(n, heap) IN
         /\ frame' = st.f
         /\ heap' = st.h
    /\ UNCHANGED tree

CallNextElementSibling ==
    /\ frame.pc = "idle"
    /\ \E n \in Nodes :
         LET st == EnterNextElementSibling(n, heap) IN
         /\ frame' = st.f
         /\ heap' = st.h
    /\ UNCHANGED tree

CallPrevElementSibling ==
    /\ frame.pc = "idle"
    /\ \E n \in Nodes :
         LET st == EnterPrevElementSibling(n, heap) IN
         /\ frame' = st.f
         /\ heap' = st.h
    /\ UNCHANGED tree

\* One loop iteration (or the loop's exit) of the call in progress.
Step ==
    /\ frame.pc \in {"L50", "L54", "L113", "L127"}
    /\ LET st == Exec([f |-> frame, h |-> heap]) IN
       /\ frame' = st.f
       /\ heap' = st.h
    /\ UNCHANGED tree

\* The caller takes the result (or the exception); the array a call made is
\* dropped with it.
Return ==
    /\ frame.pc \in {"done", "error"}
    /\ frame' = Idle
    /\ heap' = TreeHeap
    /\ UNCHANGED tree

Next ==
    \/ CallGetChildren
    \/ CallGetParent
    \/ CallGetSiblings
    \/ CallGetAttributeValue
    \/ CallHasAttrib
    \/ CallGetName
    \/ CallNextElementSibling
    \/ CallPrevElementSibling
    \/ Step
    \/ Return

Spec == Init /\ [][Next]_vars

\* A call, once made, runs: the accessors are synchronous.
FairSpec == Spec /\ WF_vars(Step)

(* ---------------------------------------------------------------------- *)
(* Properties                                                              *)
(* ---------------------------------------------------------------------- *)

\* The call of fn has returned; its result is frame.ret.
Done(fn) == frame.pc = "done" /\ frame.fn = fn

Range(s) == {s[i] : i \in 1..Len(s)}

IsElement(n) == type[n] \in ElementTypes

IsContainer(n) == type[n] \in ContainerTypes

IsAbsent(v) == v \in {StrUndefined, StrNull}

\* s is a whole sibling chain in document order: linked both ways, null at
\* both ends, no node twice.
IsChain(s) ==
    /\ Len(s) >= 1
    /\ prev[s[1]] = Null
    /\ next[s[Len(s)]] = Null
    /\ \A i \in 1..(Len(s) - 1) : next[s[i]] = s[i + 1] /\ prev[s[i + 1]] = s[i]
    /\ \A i, j \in 1..Len(s) : i # j => s[i] # s[j]

\* The nodes after n along next, and before n along prev, nearest first.
RECURSIVE FollowNext(_)
FollowNext(n) ==
    IF next[n] = Null THEN <<>> ELSE <<next[n]>> \o FollowNext(next[n])

RECURSIVE FollowPrev(_)
FollowPrev(n) ==
    IF prev[n] = Null THEN <<>> ELSE <<prev[n]>> \o FollowPrev(prev[n])

\* r is the first Element of s, every node before it a non-element; or r is
\* null and s holds no Element.
NearestElement(s, r) ==
    IF \E i \in 1..Len(s) : IsElement(s[i])
    THEN \E i \in 1..Len(s) :
            /\ s[i] = r
            /\ IsElement(r)
            /\ \A j \in 1..(i - 1) : ~IsElement(s[j])
    ELSE r = Null

\* C1: for a node N with a parent P, getSiblings(N) returns exactly P's child
\* sequence, equal to getChildren(P), and that sequence contains N.
C1_SiblingsOfChild ==
    Done("getSiblings") /\ parent[frame.elem] # Null =>
        LET P == parent[frame.elem]
            c == getChildren(P, TreeHeap)
        IN /\ frame.ret \in DOMAIN heap
           /\ heap[frame.ret] = heap[children[P]]
           /\ heap[frame.ret] = c.h[c.ret]
           /\ frame.elem \in Range(heap[frame.ret])

C1_Witness ==
    /\ Done("getSiblings")
    /\ parent[frame.elem] # Null
    /\ Len(heap[frame.ret]) >= 2
    /\ heap[frame.ret][1] # frame.elem

\* C2: for a parent-less node N of a consistent chain, getSiblings(N) returns
\* the whole chain, each node once, in document order, and the same
\* sequence for every node of the chain.
C2_SiblingsOfDetached ==
    Done("getSiblings") /\ parent[frame.elem] = Null =>
        LET s == heap[frame.ret] IN
        /\ IsChain(s)
        /\ frame.elem \in Range(s)
        /\ Len(s) = 1 + Len(FollowPrev(frame.elem)) + Len(FollowNext(frame.elem))
        /\ \A m \in Range(s) : getSiblings(m) = s

C2_Witness ==
    /\ Done("getSiblings")
    /\ parent[frame.elem] = Null
    /\ Len(heap[frame.ret]) >= 3
    /\ heap[frame.ret][2] = frame.elem

\* C3: hasAttrib(E, name) is true if and only if getAttributeValue(E, name)
\* is not absent.
C3_HasAttribIffValue ==
    /\ Done("hasAttrib") =>
          (frame.ret <=> ~IsAbsent(getAttributeValue(frame.elem, frame.attr)))
    /\ Done("getAttributeValue") =>
          (~IsAbsent(frame.ret) <=> hasAttrib(frame.elem, frame.attr))

\* C4: nextElementSibling(N) returns the nearest Element after N along next,
\* every node between a non-element, and null exactly when no Element
\* follows N; prevElementSibling(N) the same along prev.
C4_NearestElementSibling ==
    /\ Done("nextElementSibling") =>
          NearestElement(FollowNext(frame.elem), frame.ret)
    /\ Done("prevElementSibling") =>
          NearestElement(FollowPrev(frame.elem), frame.ret)

C4_Witness ==
    /\ Done("nextElementSibling")
    /\ frame.ret # Null
    /\ frame.ret # next[frame.elem]

\* C5: hasAttrib returns false when the key is stored with a null or absent
\* value, when the name is not an own key (inherited names included), and
\* when the element has no attribute mapping.
C5_HasAttribFalse ==
    Done("hasAttrib") =>
        LET a == attribs[frame.elem] IN
        (a = NoAttribs \/ a[frame.attr] \in {Missing, StrNull, StrUndefined})
            => frame.ret = FALSE

C5_Witness ==
    /\ Done("hasAttrib")
    /\ attribs[frame.elem] # NoAttribs
    /\ attribs[frame.elem][frame.attr] = StrNull

\* C6: getChildren of a non-container returns an empty sequence, never an
\* absent value or an error; of a container, its child sequence in order.
C6_GetChildren ==
    Done("getChildren") =>
        /\ frame.ret \in DOMAIN heap
        /\ LET s == heap[frame.ret] IN
           IF IsContainer(frame.elem)
           THEN /\ frame.ret = children[frame.elem]
                /\ Range(s) = {m \in Nodes : parent[m] = frame.elem}
                /\ s # <<>> => IsChain(s)
           ELSE s = <<>>

C6_Witness == Done("getChildren") /\ ~IsContainer(frame.elem)

\* C7: getParent of every child in getChildren(P) is P; getParent of a node
\* no container holds is null.
C7_ParentOfChild ==
    /\ Done("getChildren") =>
          \A i \in 1..Len(heap[frame.ret]) :
              getParent(heap[frame.ret][i]) = frame.elem
    /\ Done("getParent") =>
          IF \E p \in Nodes : IsContainer(p) /\ frame.elem \in Range(heap[children[p]])
          THEN frame.ret # Null /\ frame.elem \in Range(heap[children[frame.ret]])
          ELSE frame.ret = Null

C7_Witness == Done("getChildren") /\ Len(heap[frame.ret]) >= 2

\* A step leaves every node's fields and every children array as they were.
TreeUnchanged ==
    /\ tree' = tree
    /\ \A r \in TreeRefs : r \in DOMAIN heap' /\ heap'[r] = heap[r]

\* C8: no step of any accessor changes the tree: every node's type, name,
\* parent, prev, next, children reference and attribs, and the contents of
\* every children array, stay as they were, also while getSiblings builds
\* its accumulator.
C8_TreeNeverChanges == [][TreeUnchanged]_vars

C8_Witness ==
    /\ frame.fn = "getSiblings"
    /\ frame.pc = "L54"
    /\ Len(heap[frame.siblings]) >= 2
    /\ hasChildren(frame.elem)

\* The call in progress has read no node twice.
NoRevisit ==
    \A i, j \in 1..Len(frame.visited) : i # j => frame.visited[i] # frame.visited[j]

\* C9: every call of getSiblings, nextElementSibling and prevElementSibling
\* returns, having raised no error and visited no node twice.
C9_CallsTerminate ==
    /\ [](frame.pc # "error" /\ NoRevisit)
    /\ (frame.pc \in {"L50", "L54", "L113", "L127"}) ~> (frame.pc = "done")

C9_Witness ==
    /\ Done("prevElementSibling")
    /\ Len(frame.visited) >= 3

\* C10: on Elements nextElementSibling and prevElementSibling are inverse,
\* and a node either of them returns differs from N and is among getSiblings(N).
C10_ElementSiblingsInverse ==
    /\ Done("nextElementSibling") =>
          /\ frame.ret # Null =>
                /\ frame.ret # frame.elem
                /\ frame.ret \in Range(getSiblings(frame.elem))
                /\ IsElement(frame.elem) => prevElementSibling(frame.ret) = frame.elem
          /\ IsElement(frame.elem) =>
                \A B \in Elements : prevElementSibling(B) = frame.elem => frame.ret = B
    /\ Done("prevElementSibling") =>
          /\ frame.ret # Null =>
                /\ frame.ret # frame.elem
                /\ frame.ret \in Range(getSiblings(frame.elem))
                /\ IsElement(frame.elem) => nextElementSibling(frame.ret) = frame.elem
          /\ IsElement(frame.elem) =>
                \A A \in Elements : nextElementSibling(A) = frame.elem => frame.ret = A

C10_Witness ==
    /\ Done("nextElementSibling")
    /\ IsElement(frame.elem)
    /\ frame.ret # Null
    /\ prev[frame.ret] # frame.elem

====
